---- MODULE Spec2Model ----
(***************************************************************************)
(* Model of tensorflow_datasets/core/folder_dataset/image_folder.py:       *)
(* the directory scan _get_split_label_images, and the ImageFolder builder *)
(* (constructor, _as_dataset, download_and_prepare) that consumes it.      *)
(*                                                                         *)
(* Strings are sequences of code points, so that sorted(), str.lower() and *)
(* str.endswith() are computed as Python computes them.                    *)
(***************************************************************************)
EXTENDS Integers, Sequences, FiniteSets, TLC

VARIABLES fs, root, pc, splitsTodo, split_name, labelsTodo, split_examples,
          key_order, labels, shuffleTodo, rng, result, builder, last

vars == <<fs, root, pc, splitsTodo, split_name, labelsTodo, split_examples,
          key_order, labels, shuffleTodo, rng, result, builder, last>>

scanVars == <<splitsTodo, split_name, labelsTodo, split_examples, key_order,
              labels, shuffleTodo>>

(***************************************************************************)
(* Bounds of the model.                                                    *)
(***************************************************************************)
\* entries (beyond the directories that lead to them) of a tree, one builder
MaxLeaves == 3
\* the same, for the two roots scanned concurrently
MaxConcLeaves == 3

(***************************************************************************)
(* Strings.                                                                *)
(***************************************************************************)
Str_sep    == <<47>>                                   \* "/"
Str_rootA  == <<47, 65>>                               \* "/A"
Str_rootB  == <<47, 66>>                               \* "/B"
Str_test   == <<116, 101, 115, 116>>                   \* "test"
Str_train  == <<116, 114, 97, 105, 110>>               \* "train"
Str_valid  == <<118, 97, 108, 105, 100>>               \* "valid"
Str_cat    == <<99, 97, 116>>                          \* "cat"
Str_dog    == <<100, 111, 103>>                        \* "dog"
Str_readme == <<82, 69, 65, 68, 77, 69>>               \* "README"
Str_a_png  == <<97, 46, 112, 110, 103>>                \* "a.png"
Str_b_jpeg == <<98, 46, 106, 112, 101, 103>>           \* "b.jpeg"
Str_P_JPG  == <<112, 104, 111, 116, 111, 46, 74, 80, 71>>   \* "photo.JPG"
Str_P_GIF  == <<112, 104, 111, 116, 111, 46, 71, 73, 70>>   \* "photo.GIF"
Str_notes  == <<110, 111, 116, 101, 115, 46, 116, 120, 116>> \* "notes.txt"
Str_sub    == <<115, 117, 98, 46, 112, 110, 103>>      \* "sub.png"

\* _SUPPORTED_IMAGE_FORMAT = ('.jpg', '.jpeg', '.png')
SUPPORTED_IMAGE_FORMAT ==
  { <<46, 106, 112, 103>>, <<46, 106, 112, 101, 103>>, <<46, 112, 110, 103>> }

\* str.lower(), on ASCII
LowerChar(c) == IF c \in 65..90 THEN c + 32 ELSE c
Lower(s) == [i \in 1..Len(s) |-> LowerChar(s[i])]

\* str.endswith()
EndsWith(s, ext) ==
  /\ Len(ext) <= Len(s)
  /\ SubSeq(s, Len(s) - Len(ext) + 1, Len(s)) = ext

\* os.path.join(a, b) for a relative b: a separator unless a is empty or
\* already ends with one
PathJoin(a, b) ==
  IF a = <<>> \/ a[Len(a)] = Str_sep[1] THEN a \o b ELSE a \o Str_sep \o b

\* Python's order on str: lexicographic on code points
StrLess(a, b) ==
  \E i \in 1..(Len(a) + 1) :
    /\ \A k \in 1..(i - 1) : k <= Len(b) /\ a[k] = b[k]
    /\ \/ i = Len(a) + 1 /\ Len(b) >= i
       \/ i <= Len(a) /\ i <= Len(b) /\ a[i] < b[i]

RECURSIVE InsertSorted(_, _)
InsertSorted(x, l) ==
  IF l = <<>> THEN <<x>>
  ELSE IF StrLess(x, Head(l)) THEN <<x>> \o l
  ELSE <<Head(l)>> \o InsertSorted(x, Tail(l))

\* sorted(l) on a list of str
RECURSIVE Sorted(_)
Sorted(l) == IF l = <<>> THEN <<>> ELSE InsertSorted(Head(l), Sorted(Tail(l)))

Range(l) == { l[i] : i \in 1..Len(l) }

(***************************************************************************)
(* The file system.  A node is an entry of its parent directory; the roots *)
(* themselves always exist.                                                *)
(***************************************************************************)
Node(parent, name, isdir) == [parent |-> parent, name |-> name, isdir |-> isdir]

\* the orders in which a listing may return the entries S
Orderings(S) ==
  { l \in [1..Cardinality(S) -> S] : \A i, j \in 1..Cardinality(S) : l[i] = l[j] => i = j }

\* the entries of directory dir of a tree, and whether a path is a directory
EntryNames(tree, dir) == { n.name : n \in { m \in tree : m.parent = dir } }
IsDirIn(tree, path) == \E n \in tree : PathJoin(n.parent, n.name) = path /\ n.isdir

\* tf.io.gfile.listdir(dir): the names of the entries, as a set
ListDir(dir) == EntryNames(fs, dir)

\* tf.io.gfile.isdir(path)
IsDir(path) == IsDirIn(fs, path)

\* _list_folders(root_dir), given the listing
ListFolders(dir, listing) ==
  SelectSeq(listing, LAMBDA f : IsDir(PathJoin(dir, f)))

\* the condition of the comprehension of _list_img_paths
IsImgName(f) == \E ext \in SUPPORTED_IMAGE_FORMAT : EndsWith(Lower(f), ext)

\* _list_img_paths(root_dir), given the listing
ListImgPaths(dir, listing) ==
  LET kept == SelectSeq(listing, IsImgName)
  IN  [i \in 1..Len(kept) |-> PathJoin(dir, kept[i])]

\* _Example(image_path=..., label=...)
Example(image_path, label) == [image_path |-> image_path, label |-> label]

(***************************************************************************)
(* random.Random: the generator's bits are abstracted to a small           *)
(* congruential generator; seeding by a str and the shuffle's loop are     *)
(* the library's.                                                          *)
(***************************************************************************)
RECURSIVE StrHash(_)
StrHash(s) == IF s = <<>> THEN 7 ELSE (StrHash(Tail(s)) * 31 + Head(s)) % 64

\* random.Random(seed)
RandomSeeded(seed) == StrHash(seed)

RngNext(s) == (s * 37 + 11) % 64

\* rgn._randbelow(n), from state s (after advancing)
RandBelow(s, n) == (RngNext(s) \div 4) % n

SwapLosing(l, i, j) == [l EXCEPT ![i] = l[j]]
Swap(l, i, j) == [l EXCEPT ![i] = l[j], ![j] = l[i]]

\* the loop of Random.shuffle(x): for i in reversed(range(1, len(x))):
\*   j = randbelow(i + 1); x[i], x[j] = x[j], x[i]       (here 1-based)
RECURSIVE ShuffleFrom(_, _, _)
ShuffleFrom(x, i, s) ==
  IF i < 2 THEN [list |-> x, state |-> s]
  ELSE ShuffleFrom(Swap(x, i, RandBelow(s, i) + 1), i - 1, RngNext(s))

\* rgn.shuffle(x)
Shuffle(x, s) == ShuffleFrom(x, Len(x), s)

(***************************************************************************)
(* The directory trees the scans are run on.  A tree is the union of at    *)
(* most MaxLeaves chains; a chain is an entry with the directories that    *)
(* lead to it.                                                             *)
(***************************************************************************)
SplitChain(r, s) == { Node(r, s, TRUE) }
LabelChain(r, s, l) == SplitChain(r, s) \cup { Node(PathJoin(r, s), l, TRUE) }
EntryChain(r, s, l, f, isdir) ==
  LabelChain(r, s, l) \cup { Node(PathJoin(PathJoin(r, s), l), f, isdir) }

\* the chains of the tree one builder is constructed on
Chains ==
  LET r == Str_rootA IN
       { SplitChain(r, s) : s \in {Str_test, Str_train} }
  \cup { {Node(r, Str_readme, FALSE)},
         SplitChain(r, Str_train) \cup {Node(PathJoin(r, Str_train), Str_notes, FALSE)} }
  \cup { LabelChain(r, s, l) : s \in {Str_test, Str_train}, l \in {Str_cat, Str_dog} }
  \cup { EntryChain(r, Str_train, Str_cat, f, FALSE) :
           f \in {Str_a_png, Str_b_jpeg, Str_P_JPG, Str_P_GIF, Str_notes} }
  \cup { EntryChain(r, Str_train, Str_cat, Str_sub, TRUE) }
  \cup { EntryChain(r, Str_train, Str_dog, f, FALSE) : f \in {Str_a_png, Str_b_jpeg} }
  \cup { EntryChain(r, Str_test, l, Str_a_png, FALSE) : l \in {Str_cat, Str_dog} }

\* the chains of the trees of two roots scanned concurrently
ConcChains ==
  UNION { { SplitChain(r, Str_test), SplitChain(r, Str_train),
            LabelChain(r, Str_test, Str_cat), LabelChain(r, Str_train, Str_cat),
            EntryChain(r, Str_test, Str_cat, Str_a_png, FALSE),
            EntryChain(r, Str_train, Str_cat, Str_a_png, FALSE),
            EntryChain(r, Str_train, Str_cat, Str_b_jpeg, FALSE) }
          : r \in {Str_rootA, Str_rootB} }

RECURSIVE SubsetsUpTo(_, _)
SubsetsUpTo(S, n) ==
  IF n = 0 THEN { {} }
  ELSE LET prev == SubsetsUpTo(S, n - 1)
       IN  prev \cup { s \cup {x} : s \in prev, x \in S }

Trees(chains, n) == { UNION c : c \in SubsetsUpTo(chains, n) }

(***************************************************************************)
(* State.                                                                  *)
(***************************************************************************)
Procs == {1, 2}

\* the generators: the random module's own (0), and one per running scan
ModuleRandom == 0
NoGenerator == 0 - 1

\* the state the random module's generator may have been left in
ModuleRandomStates == {0, 1}

EmptyDict == <<>>

NoResult == [split_examples |-> EmptyDict, keys |-> <<>>, labels |-> <<>>]
NoBuilder == [_split_examples |-> EmptyDict, keys |-> <<>>, names |-> <<>>,
              splits |-> <<>>, shard_lengths |-> EmptyDict]
NoCall == [call |-> "none", split |-> <<>>, shuffle_files |-> FALSE,
           decoders |-> FALSE, raised |-> "none", msg |-> "none",
           valid |-> <<>>, mapped |-> 0, ds |-> <<>>]

InitCommon ==
  /\ splitsTodo = [p \in Procs |-> <<>>]
  /\ split_name = [p \in Procs |-> <<>>]
  /\ labelsTodo = [p \in Procs |-> <<>>]
  /\ split_examples = [p \in Procs |-> EmptyDict]
  /\ key_order = [p \in Procs |-> <<>>]
  /\ labels = [p \in Procs |-> {}]
  /\ shuffleTodo = [p \in Procs |-> <<>>]
  /\ \E g \in ModuleRandomStates :
       rng = [i \in Procs \cup {ModuleRandom} |-> IF i = ModuleRandom THEN g ELSE NoGenerator]
  /\ result = [p \in Procs |-> NoResult]
  /\ builder = [p \in Procs |-> NoBuilder]
  /\ last = [p \in Procs |-> NoCall]

\* one builder constructed on one root
Init ==
  /\ fs \in Trees(Chains, MaxLeaves)
  /\ root = [p \in Procs |-> Str_rootA]
  /\ pc = [p \in Procs |-> IF p = 1 THEN "start" ELSE "idle"]
  /\ InitCommon

\* two scans, of the same root or of different roots
InitConc ==
  /\ fs \in Trees(ConcChains, MaxConcLeaves)
  /\ \E r \in {Str_rootA, Str_rootB} : root = [p \in Procs |-> IF p = 1 THEN Str_rootA ELSE r]
  /\ pc = [p \in Procs |-> "start"]
  /\ InitCommon

(***************************************************************************)
(* _get_split_label_images(root_dir), one step per loop iteration.         *)
(***************************************************************************)
\* collections.defaultdict(list): d[k] of a missing key inserts list()
DictKeys(d) == DOMAIN d
DictGet(d, k) == IF k \in DOMAIN d THEN d[k] ELSE <<>>
DictSet(d, k, v) == [x \in DOMAIN d \cup {k} |-> IF x = k THEN v ELSE d[x]]
KeysAfterGet(order, d, k) == IF k \in DOMAIN d THEN order ELSE Append(order, k)
DictAfterPop(d, k) == [x \in DOMAIN d \ {k} |-> d[x]]
DictAfterGet(d, k) == DictSet(d, k, DictGet(d, k))

\* sorted(...) of the three listings, and of the set of labels
Unsorted(l) == l
SortedSplits(l) == Sorted(l)
SortedLabels(l) == Sorted(l)
SortedImgPaths(l) == Sorted(l)
SortedLabelSet(l) == Sorted(l)

\* the generator a scan shuffles with: rgn = random.Random(split_name)
RgnShared(p) == ModuleRandom
RgnOf(p) == p

\* the seed of the generator of a split
SeedOf(p, name) == name

\* line 175-177: the dict, the set, and the sorted list of splits
ScanStart(p) ==
  /\ pc[p] = "start"
  /\ \E listing \in Orderings(ListDir(root[p])) :
       splitsTodo' = [splitsTodo EXCEPT ![p] = SortedSplits(ListFolders(root[p], listing))]
  /\ split_examples' = [split_examples EXCEPT ![p] = EmptyDict]
  /\ key_order' = [key_order EXCEPT ![p] = <<>>]
  /\ labels' = [labels EXCEPT ![p] = {}]
  /\ pc' = [pc EXCEPT ![p] = "split_loop"]
  /\ UNCHANGED <<fs, root, split_name, labelsTodo, shuffleTodo, rng, result, builder, last>>

\* line 177-179: the next split, and the sorted list of its labels
NextSplit(p) ==
  /\ pc[p] = "split_loop"
  /\ splitsTodo[p] # <<>>
  /\ LET s == Head(splitsTodo[p])
         split_dir == PathJoin(root[p], s)
     IN  /\ split_name' = [split_name EXCEPT ![p] = s]
         /\ \E listing \in Orderings(ListDir(split_dir)) :
              labelsTodo' = [labelsTodo EXCEPT ![p] = SortedLabels(ListFolders(split_dir, listing))]
  /\ splitsTodo' = [splitsTodo EXCEPT ![p] = Tail(@)]
  /\ pc' = [pc EXCEPT ![p] = "label_loop"]
  /\ UNCHANGED <<fs, root, split_examples, key_order, labels, shuffleTodo, rng, result, builder, last>>

\* line 179-185: the next label of the split, and its examples
NextLabel(p) ==
  /\ pc[p] = "label_loop"
  /\ labelsTodo[p] # <<>>
  /\ LET label_name == Head(labelsTodo[p])
         split_dir == PathJoin(root[p], split_name[p])
         label_dir == PathJoin(split_dir, label_name)
         d == split_examples[p]
     IN  /\ labels' = [labels EXCEPT ![p] = @ \cup {label_name}]
         /\ \E listing \in Orderings(ListDir(label_dir)) :
              LET paths == SortedImgPaths(ListImgPaths(label_dir, listing))
                  new == [i \in 1..Len(paths) |-> Example(paths[i], label_name)]
              IN  split_examples' = [split_examples EXCEPT ![p] =
                      DictSet(d, split_name[p], DictGet(d, split_name[p]) \o new)]
         /\ key_order' = [key_order EXCEPT ![p] = KeysAfterGet(@, d, split_name[p])]
  /\ labelsTodo' = [labelsTodo EXCEPT ![p] = Tail(@)]
  /\ UNCHANGED <<fs, root, pc, splitsTodo, split_name, shuffleTodo, rng, result, builder, last>>

\* line 179: the labels of the split are exhausted
LabelsDone(p) ==
  /\ pc[p] = "label_loop"
  /\ labelsTodo[p] = <<>>
  /\ pc' = [pc EXCEPT ![p] = "split_loop"]
  /\ UNCHANGED <<fs, root, splitsTodo, split_name, labelsTodo, split_examples, key_order,
                 labels, shuffleTodo, rng, result, builder, last>>

\* line 177, 188: the splits are exhausted; the shuffle loop takes items()
SplitsDone(p) ==
  /\ pc[p] = "split_loop"
  /\ splitsTodo[p] = <<>>
  /\ shuffleTodo' = [shuffleTodo EXCEPT ![p] = key_order[p]]
  /\ pc' = [pc EXCEPT ![p] = "shuffle_loop"]
  /\ UNCHANGED <<fs, root, splitsTodo, split_name, labelsTodo, split_examples, key_order,
                 labels, rng, result, builder, last>>

\* line 189: rgn = random.Random(split_name)
ShuffleSeed(p) ==
  /\ pc[p] = "shuffle_loop"
  /\ shuffleTodo[p] # <<>>
  /\ split_name' = [split_name EXCEPT ![p] = Head(shuffleTodo[p])]
  /\ rng' = [rng EXCEPT ![RgnOf(p)] = RandomSeeded(SeedOf(p, Head(shuffleTodo[p])))]
  /\ pc' = [pc EXCEPT ![p] = "shuffle"]
  /\ UNCHANGED <<fs, root, splitsTodo, labelsTodo, split_examples, key_order, labels,
                 shuffleTodo, result, builder, last>>

\* line 190: rgn.shuffle(examples), in place
ShuffleExamples(p) ==
  /\ pc[p] = "shuffle"
  /\ LET r == Shuffle(split_examples[p][split_name[p]], rng[RgnOf(p)])
     IN  /\ split_examples' = [split_examples EXCEPT ![p][split_name[p]] = r.list]
         /\ rng' = [rng EXCEPT ![RgnOf(p)] = r.state]
  /\ shuffleTodo' = [shuffleTodo EXCEPT ![p] = Tail(@)]
  /\ pc' = [pc EXCEPT ![p] = "shuffle_loop"]
  /\ UNCHANGED <<fs, root, splitsTodo, split_name, labelsTodo, key_order, labels,
                 result, builder, last>>

\* line 191: return split_examples, sorted(labels)
ScanReturn(p) ==
  /\ pc[p] = "shuffle_loop"
  /\ shuffleTodo[p] = <<>>
  /\ \E l \in Orderings(labels[p]) :
       result' = [result EXCEPT ![p] = [split_examples |-> split_examples[p],
                                        keys |-> key_order[p],
                                        labels |-> SortedLabelSet(l)]]
  /\ pc' = [pc EXCEPT ![p] = "returned"]
  /\ UNCHANGED <<fs, root, scanVars, rng, builder, last>>

ScanStep(p) ==
  \/ ScanStart(p)
  \/ NextSplit(p)
  \/ NextLabel(p)
  \/ LabelsDone(p)
  \/ SplitsDone(p)
  \/ ShuffleSeed(p)
  \/ ShuffleExamples(p)
  \/ ScanReturn(p)

NextConc == \E p \in Procs : ScanStep(p)

SpecConc == InitConc /\ [][NextConc]_vars

(***************************************************************************)
(* ImageFolder.                                                            *)
(***************************************************************************)
\* the split names _as_dataset is called with: the two a tree may hold, and
\* one no tree holds
SplitArgs == {Str_test, Str_train, Str_valid}

\* ImageFolder.__init__, lines 81-93, after the scan has returned
Construct(p) ==
  /\ pc[p] = "returned"
  /\ LET d == result[p].split_examples
     IN  builder' = [builder EXCEPT ![p] =
           [_split_examples |-> d,
            keys |-> result[p].keys,
            names |-> Sorted(result[p].labels),
            splits |-> result[p].keys,
            shard_lengths |-> [k \in DictKeys(d) |-> <<Len(d[k])>>]]]
  /\ pc' = [pc EXCEPT ![p] = "ready"]
  /\ UNCHANGED <<fs, root, scanVars, rng, result, last>>

Str2IntOneBased(names, s) ==
  IF \E i \in 1..Len(names) : names[i] = s
  THEN CHOOSE i \in 1..Len(names) : names[i] = s
  ELSE -1

\* ClassLabel.str2int: the position of the name, -1 standing for its ValueError
Str2Int(names, s) ==
  IF \E i \in 1..Len(names) : names[i] = s
  THEN (CHOOSE i \in 1..Len(names) : names[i] = s) - 1
  ELSE -1

\* line 124: if decoders
DecodersGiven(decoders) == decoders

SplitNeverUnrecognized(b, split) == FALSE

\* line 127: split not in self.info.splits.keys()
SplitUnrecognized(b, split) == split \notin Range(b.splits)

\* lines 134-139: the examples of the split, each with its label's index
Extracted(b, split) ==
  LET examples == DictGet(b._split_examples, split)
  IN  [i \in 1..Len(examples) |->
         <<examples[i].image_path, Str2Int(b.names, examples[i].label)>>]

Raised(call, split, shuffle_files, decoders, raised, msg, valid) ==
  [call |-> call, split |-> split, shuffle_files |-> shuffle_files,
   decoders |-> decoders, raised |-> raised, msg |-> msg, valid |-> valid,
   mapped |-> 0, ds |-> <<>>]

\* the orders ds.shuffle(len(examples)) may emit the elements in
RuntimeOrders(pairs, shuffle_files) ==
  IF shuffle_files
  THEN { [i \in 1..Len(pairs) |-> pairs[o[i]]] : o \in Orderings(1..Len(pairs)) }
  ELSE { pairs }

\* ImageFolder._as_dataset(split, shuffle_files, decoders), lines 116-146
AsDataset(p, split, shuffle_files, decoders) ==
  /\ pc[p] = "ready"
  /\ LET b == builder[p] IN
     IF DecodersGiven(decoders)
     THEN /\ last' = [last EXCEPT ![p] =
                Raised("_as_dataset", split, shuffle_files, decoders,
                       "NotImplementedError", "decoders is not supported", <<>>)]
          /\ UNCHANGED builder
     ELSE IF SplitUnrecognized(b, split)
     THEN /\ last' = [last EXCEPT ![p] =
                Raised("_as_dataset", split, shuffle_files, decoders,
                       "ValueError", "Unrecognized split", b.splits)]
          /\ UNCHANGED builder
     ELSE LET pairs == Extracted(b, split) IN
          \* line 136: self._split_examples[split], on the defaultdict
          /\ builder' = [builder EXCEPT ![p] =
                [b EXCEPT !._split_examples = DictAfterGet(@, split),
                          !.keys = KeysAfterGet(@, b._split_examples, split)]]
          /\ IF \E i \in 1..Len(pairs) : pairs[i][2] = -1
             THEN last' = [last EXCEPT ![p] =
                    [Raised("_as_dataset", split, shuffle_files, decoders,
                            "ValueError", "Invalid string class label", <<>>)
                       EXCEPT !.mapped = CHOOSE i \in 1..Len(pairs) : pairs[i][2] = -1
                                           /\ \A k \in 1..(i - 1) : pairs[k][2] # -1]]
             ELSE \E ds \in RuntimeOrders(pairs, shuffle_files) :
                    last' = [last EXCEPT ![p] =
                      [call |-> "_as_dataset", split |-> split,
                       shuffle_files |-> shuffle_files, decoders |-> decoders,
                       raised |-> "none", msg |-> "none", valid |-> <<>>,
                       mapped |-> Len(pairs), ds |-> ds]]
  /\ UNCHANGED <<fs, root, pc, scanVars, rng, result>>

\* ImageFolder.download_and_prepare, lines 108-114
DownloadAndPrepare(p) ==
  /\ pc[p] = "ready"
  /\ last' = [last EXCEPT ![p] =
        Raised("download_and_prepare", <<>>, FALSE, FALSE,
               "NotImplementedError", "No need to call download_and_prepare", <<>>)]
  /\ UNCHANGED <<fs, root, pc, scanVars, rng, result, builder>>

Next ==
  \E p \in Procs :
    \/ ScanStep(p)
    \/ Construct(p)
    \/ \E split \in SplitArgs, shuffle_files \in BOOLEAN, decoders \in BOOLEAN :
         AsDataset(p, split, shuffle_files, decoders)
    \/ DownloadAndPrepare(p)

Spec == Init /\ [][Next]_vars

(***************************************************************************)
(* What the claims speak of, stated on the tree itself.                    *)
(***************************************************************************)
\* the strictly increasing sequence of the strings of S
Increasing(l) == \A i, j \in 1..Len(l) : i < j => StrLess(l[i], l[j])
IncreasingSeqOf(S) == CHOOSE l \in Orderings(S) : Increasing(l)

\* the split directories of root r, and the label directories of split s
SplitDirs(tree, r) == { s \in EntryNames(tree, r) : IsDirIn(tree, PathJoin(r, s)) }
LabelDirs(tree, r, s) ==
  { l \in EntryNames(tree, PathJoin(r, s)) : IsDirIn(tree, PathJoin(PathJoin(r, s), l)) }
AllLabelDirs(tree, r) == UNION { LabelDirs(tree, r, s) : s \in SplitDirs(tree, r) }

\* the extension of a name: from its last dot on, lower-cased
LastDot(f) == IF \E i \in 1..Len(f) : f[i] = 46
              THEN CHOOSE i \in 1..Len(f) : f[i] = 46 /\ \A k \in (i + 1)..Len(f) : f[k] # 46
              ELSE 0
Extension(f) == IF LastDot(f) = 0 THEN <<>> ELSE Lower(SubSeq(f, LastDot(f), Len(f)))
HasImageExtension(f) == Extension(f) \in SUPPORTED_IMAGE_FORMAT

\* the examples of one label directory, in filename order
LabelExamples(tree, r, s, l) ==
  LET dir == PathJoin(PathJoin(r, s), l)
      paths == IncreasingSeqOf({ PathJoin(dir, f) : f \in { g \in EntryNames(tree, dir) : IsImgName(g) } })
  IN  [i \in 1..Len(paths) |-> Example(paths[i], l)]

RECURSIVE ConcatLabels(_, _, _, _)
ConcatLabels(tree, r, s, ls) ==
  IF ls = <<>> THEN <<>>
  ELSE LabelExamples(tree, r, s, Head(ls)) \o ConcatLabels(tree, r, s, Tail(ls))

\* the canonical list of split s: label-sorted, then filename-sorted
Canonical(tree, r, s) == ConcatLabels(tree, r, s, IncreasingSeqOf(LabelDirs(tree, r, s)))

\* the order of a split as a function of its name and its canonical list
ShuffleOf(name, canonical) == Shuffle(canonical, RandomSeeded(name)).list

\* the scan of root r run on its own
ScanAlone(tree, r) ==
  LET keys == { s \in SplitDirs(tree, r) : LabelDirs(tree, r, s) # {} }
  IN  [split_examples |-> [s \in keys |-> ShuffleOf(s, Canonical(tree, r, s))],
       keys |-> IncreasingSeqOf(keys),
       labels |-> IncreasingSeqOf(AllLabelDirs(tree, r))]

Count(l, e) == Cardinality({ i \in 1..Len(l) : l[i] = e })
IsPermutation(a, b) ==
  /\ Len(a) = Len(b)
  /\ \A e \in Range(a) \cup Range(b) : Count(a, e) = Count(b, e)

Returned(p) == pc[p] \in {"returned", "ready"}

\* the number of labels of the tree that sort before label l
LabelPosition(tree, r, l) == Cardinality({ x \in AllLabelDirs(tree, r) : StrLess(x, l) })

(***************************************************************************)
(* C1.  Two scans of the same root return the same table (the same keys    *)
(* and, per split, the same examples in the same order) and the same       *)
(* labels, whatever order the listings came in; and the order of a split   *)
(* is a function of the split's name and its canonical list.               *)
(***************************************************************************)
C1_Determinism ==
  /\ \A p, q \in Procs :
       Returned(p) /\ Returned(q) /\ root[p] = root[q] => result[p] = result[q]
  /\ \A p \in Procs : Returned(p) =>
       \A s \in DictKeys(result[p].split_examples) :
         result[p].split_examples[s] = ShuffleOf(s, Canonical(fs, root[p], s))

\* both scans of one root have returned a split of two examples
C1_Witness ==
  /\ Returned(1) /\ Returned(2) /\ root[1] = root[2]
  /\ \E s \in DictKeys(result[1].split_examples) : Len(result[1].split_examples[s]) >= 2

(***************************************************************************)
(* C2.  Every split of the returned table is a permutation of its          *)
(* canonical list: the same examples, each as often.                       *)
(***************************************************************************)
C2_Permutation ==
  \A p \in Procs : Returned(p) =>
    \A s \in DictKeys(result[p].split_examples) :
      IsPermutation(result[p].split_examples[s], Canonical(fs, root[p], s))

\* a split of three examples of two labels, returned in another order than
\* the canonical one
C2_Witness ==
  /\ Returned(1)
  /\ \E s \in DictKeys(result[1].split_examples) :
       /\ Len(result[1].split_examples[s]) = 3
       /\ Cardinality(LabelDirs(fs, root[1], s)) = 2
       /\ result[1].split_examples[s] # Canonical(fs, root[1], s)

(***************************************************************************)
(* C3.  The keys of the returned table, and the splits the constructor     *)
(* registers, are exactly the subdirectories of the root.                  *)
(***************************************************************************)
C3_KeysAreSplitDirs ==
  \A p \in Procs :
    /\ Returned(p) => DictKeys(result[p].split_examples) = SplitDirs(fs, root[p])
    /\ pc[p] = "ready" => Range(builder[p].splits) = SplitDirs(fs, root[p])

(***************************************************************************)
(* C4.  A split directory without label directories gets an empty list in  *)
(* the returned table, and every other split has the examples it has in    *)
(* the tree without that directory.                                        *)
(***************************************************************************)
C4_EmptySplitTolerated ==
  \A p \in Procs : Returned(p) =>
    \A e \in SplitDirs(fs, root[p]) : LabelDirs(fs, root[p], e) = {} =>
      /\ e \in DictKeys(result[p].split_examples)
      /\ result[p].split_examples[e] = <<>>
      /\ \A s \in SplitDirs(fs, root[p]) \ {e} :
           /\ s \in DictKeys(result[p].split_examples)
           /\ result[p].split_examples[s] =
                ShuffleOf(s, Canonical(fs \ {Node(root[p], e, TRUE)}, root[p], s))

(***************************************************************************)
(* C5.  An entry of a label directory is an example of that label if and   *)
(* only if it is a file with one of the three extensions, compared         *)
(* case-insensitively; every example's path has one of them.               *)
(***************************************************************************)
C5_ExtensionFiltering ==
  \A p \in Procs : Returned(p) =>
    \A s \in DictKeys(result[p].split_examples) :
      /\ \A l \in LabelDirs(fs, root[p], s) :
           LET dir == PathJoin(PathJoin(root[p], s), l) IN
           \A n \in { m \in fs : m.parent = dir } :
             (Example(PathJoin(dir, n.name), l) \in Range(result[p].split_examples[s]))
               <=> (~n.isdir /\ HasImageExtension(n.name))
      /\ \A x \in Range(result[p].split_examples[s]) : HasImageExtension(x.image_path)

(***************************************************************************)
(* C6.  The returned labels are the strictly increasing sequence of the    *)
(* label directory names of all splits, and hold every example's label.    *)
(***************************************************************************)
C6_LabelSet ==
  \A p \in Procs : Returned(p) =>
    /\ Increasing(result[p].labels)
    /\ Range(result[p].labels) = AllLabelDirs(fs, root[p])
    /\ \A s \in DictKeys(result[p].split_examples) :
         \A x \in Range(result[p].split_examples[s]) : x.label \in Range(result[p].labels)

\* two labels, found in two splits, the later split holding the smaller label
C6_Witness ==
  /\ Returned(1)
  /\ Len(result[1].labels) = 2
  /\ LabelDirs(fs, root[1], Str_test) = {Str_dog}
  /\ LabelDirs(fs, root[1], Str_train) = {Str_cat}
  /\ \E s \in DictKeys(result[1].split_examples) : result[1].split_examples[s] # <<>>

(***************************************************************************)
(* C7, as claimed.  _as_dataset called with a split that is not registered *)
(* raises ValueError, its message listing the registered splits, before    *)
(* any example is mapped to a label index.                                 *)
(***************************************************************************)
C7_UnknownSplitValueError ==
  \A p \in Procs :
    (/\ pc[p] = "ready"
     /\ last[p].call = "_as_dataset"
     /\ last[p].split \notin Range(builder[p].splits))
    => /\ last[p].raised = "ValueError"
       /\ last[p].msg = "Unrecognized split"
       /\ last[p].valid = builder[p].splits
       /\ last[p].mapped = 0
       /\ last[p].ds = <<>>

(***************************************************************************)
(* C7, amended.  _as_dataset called without decoders and with a split that *)
(* is not registered raises ValueError, its message listing the registered *)
(* splits; called with decoders it raises NotImplementedError, whatever    *)
(* the split; either is raised before any example is mapped to a label     *)
(* index.                                                                  *)
(***************************************************************************)
C7_UnknownSplitAmended ==
  \A p \in Procs :
    (pc[p] = "ready" /\ last[p].call = "_as_dataset") =>
      /\ (~last[p].decoders /\ last[p].split \notin Range(builder[p].splits))
           => /\ last[p].raised = "ValueError"
              /\ last[p].msg = "Unrecognized split"
              /\ last[p].valid = builder[p].splits
              /\ last[p].mapped = 0
              /\ last[p].ds = <<>>
      /\ last[p].decoders
           => /\ last[p].raised = "NotImplementedError"
              /\ last[p].mapped = 0
              /\ last[p].ds = <<>>

\* ValueError for a directory of the root that is no registered split, on a
\* builder that has a split with examples
C7_Witness ==
  /\ pc[1] = "ready"
  /\ last[1].call = "_as_dataset" /\ last[1].raised = "ValueError"
  /\ last[1].split \in SplitDirs(fs, root[1]) \ Range(builder[1].splits)
  /\ \E s \in Range(last[1].valid) : builder[1]._split_examples[s] # <<>>

C9_ScanIndependence ==
  [][ /\ rng'[ModuleRandom] = rng[ModuleRandom]
      /\ \A p \in Procs : pc'[p] = "returned" => result'[p] = ScanAlone(fs', root'[p]) ]_vars

\* two scans of different roots have returned; both roots hold a split of
\* the same name, shuffled in one of them
C9_Witness ==
  /\ pc[1] = "returned" /\ pc[2] = "returned" /\ root[1] # root[2]
  /\ \E s \in DictKeys(result[1].split_examples) \cap DictKeys(result[2].split_examples) :
       /\ Len(result[1].split_examples[s]) + Len(result[2].split_examples[s]) >= 2
       /\ \E p \in Procs : result[p].split_examples[s] # Canonical(fs, root[p], s)

(***************************************************************************)
(* C10.  Whatever calls of _as_dataset and download_and_prepare a builder  *)
(* has served, its table, its label names and its registered splits are    *)
(* those the constructor set from the scan's return.                       *)
(***************************************************************************)
C10_Immutable ==
  \A p \in Procs : pc[p] = "ready" =>
    /\ builder[p]._split_examples = result[p].split_examples
    /\ builder[p].keys = result[p].keys
    /\ builder[p].names = result[p].labels
    /\ builder[p].splits = result[p].keys
    /\ builder[p].shard_lengths =
         [k \in DictKeys(result[p].split_examples) |-> <<Len(result[p].split_examples[k])>>]

\* a builder with examples has just raised for a split it does not hold
C10_Witness ==
  /\ pc[1] = "ready"
  /\ last[1].call = "_as_dataset" /\ last[1].raised = "ValueError"
  /\ \E s \in DictKeys(builder[1]._split_examples) : builder[1]._split_examples[s] # <<>>

====
